---- MODULE Spec2Model ----
(***************************************************************************)
(* Model of src/main.py: the data-quality functions validate_data and      *)
(* auto_correct_data (pandas semantics of the calls they make) and the     *)
(* Streamlit script that drives them through st.session_state.             *)
(*                                                                         *)
(* Numbers.  Every numeric cell of an input dataset is an even natural     *)
(* number, so that each median the code computes is an integer and each    *)
(* quantile is an integer number of quarters; quantiles are kept in        *)
(* quarters (q4) and fences in eighths (lo8, hi8).  All of these are       *)
(* small dyadic rationals, which float64 represents exactly, so the        *)
(* integer arithmetic below is the arithmetic pandas performs.             *)
(***************************************************************************)
EXTENDS Integers, Sequences, FiniteSets, TLC

\* ------------------------------------------------------------------ bounds

\* Largest number of rows of an input dataset.
MaxRows == 5

\* Largest length of each of the three chat histories of a session.
MaxHist == 2

\* ------------------------------------------------------------------- cells

\* The element of a one-element set.  A stage's value is bound as
\* Only({body : x \in {value}}), which evaluates it once.
Only(S) == CHOOSE r \in S : TRUE

\* A missing cell (numpy NaN / None).
NaN == [k |-> "nan"]

\* A numeric cell holding the number v.
Num(v) == [k |-> "num", v |-> v]

\* A textual cell holding the string s.
Str(s) == [k |-> "str", s |-> s]

\* pandas isnull on one cell.
isnull(c) == c.k = "nan"

\* What pd.to_numeric makes of one string: the strings of the model that
\* parse as a number, and the number each parses to.
ParseTable == [s \in {"0", "2", "4", "20"} |->
                 CASE s = "0" -> 0
                   [] s = "2" -> 2
                   [] s = "4" -> 4
                   [] OTHER -> 20]

\* Whether a cell of an object column converts under pd.to_numeric.
Parses(c) == c.k = "nan" \/ (c.k = "str" /\ c.s \in DOMAIN ParseTable) \/ c.k = "num"

\* The converted cell.
ParseCell(c) == IF c.k = "str" THEN Num(ParseTable[c.s]) ELSE c

\* str.lower on the column names of the model.
Lower(name) == CASE name = "Region" -> "region"
                 [] name = "Customer" -> "customer"
                 [] name = "Score" -> "score"
                 [] name = "Amount" -> "amount"
                 [] name = "Price" -> "price"
                 [] name = "Qty" -> "qty"
                 [] OTHER -> name

\* The column names validate_data exempts from the non-numeric check.
ExemptNames == {"customer", "region", "product", "category"}

\* ------------------------------------------------------------- data frames
\* A DataFrame: cols is the sequence of [name, dtype], rows the sequence of
\* [idx, c] where idx is the row's index label and c its cells by column.

NCols(df) == Len(df.cols)

ColIdx(df) == 1..Len(df.cols)

\* df.select_dtypes(include=['float64', 'int64']).columns, as column
\* positions in column order.
RECURSIVE SelectFrom(_, _)
SelectFrom(cols, k) ==
    IF k > Len(cols) THEN <<>>
    ELSE (IF cols[k].dtype \in {"float64", "int64"} THEN <<k>> ELSE <<>>)
         \o SelectFrom(cols, k + 1)

select_dtypes(df) == SelectFrom(df.cols, 1)

\* The non-missing values of column k, in row order.
RECURSIVE ValuesFrom(_, _, _)
ValuesFrom(rows, k, i) ==
    IF i > Len(rows) THEN <<>>
    ELSE (IF rows[i].c[k].k = "num" THEN <<rows[i].c[k].v>> ELSE <<>>)
         \o ValuesFrom(rows, k, i + 1)

Values(df, k) == ValuesFrom(df.rows, k, 1)

\* Insertion of x into a sorted sequence.
RECURSIVE Insert(_, _)
Insert(x, s) ==
    IF s = <<>> THEN <<x>>
    ELSE IF x <= Head(s) THEN <<x>> \o s
    ELSE <<Head(s)>> \o Insert(x, Tail(s))

RECURSIVE Sort(_)
Sort(s) == IF s = <<>> THEN <<>> ELSE Insert(Head(s), Sort(Tail(s)))

\* Series.quantile(p/4) with linear interpolation over the non-missing
\* values: rank h = (n-1)*p/4, interpolated between the order statistics
\* around it.  The result is in quarters; NaN (nan |-> TRUE) when there is
\* no value.
quantile(vals, p) ==
    IF vals = <<>> THEN [nan |-> TRUE, q4 |-> 0]
    ELSE LET s == Sort(vals)
             n == Len(s)
             h == (n - 1) * p
             i == h \div 4
             f == h % 4
             lo == s[i + 1]
             hi == s[IF i + 2 <= n THEN i + 2 ELSE n]
         IN  [nan |-> FALSE, q4 |-> 4 * lo + f * (hi - lo)]

\* Series.median over the non-missing values; NaN when there is none.
\* With even inputs the mean of the two middle values is an integer.
median(vals) ==
    IF vals = <<>> THEN [nan |-> TRUE, m |-> 0]
    ELSE LET s == Sort(vals)
             n == Len(s)
         IN  IF n % 2 = 1 THEN [nan |-> FALSE, m |-> s[(n + 1) \div 2]]
             ELSE [nan |-> FALSE, m |-> (s[n \div 2] + s[n \div 2 + 1]) \div 2]

\* Q1, Q3 = quantile(0.25), quantile(0.75); IQR = Q3 - Q1; the fences
\* Q1 - 1.5*IQR and Q3 + 1.5*IQR, in eighths.
Fences(vals) ==
    LET Q1 == quantile(vals, 1)
        Q3 == quantile(vals, 3)
        IQR4 == Q3.q4 - Q1.q4
    IN  [nan |-> Q1.nan, q1 |-> Q1.q4, q3 |-> Q3.q4, iqr |-> IQR4,
         lo8 |-> 2 * Q1.q4 - 3 * IQR4, hi8 |-> 2 * Q3.q4 + 3 * IQR4]

\* (col < Q1 - 1.5*IQR) | (col > Q3 + 1.5*IQR) on one cell: a comparison
\* with NaN on either side is False.
IsOutlier(c, f) ==
    c.k = "num" /\ ~f.nan /\ (8 * c.v < f.lo8 \/ 8 * c.v > f.hi8)

\* The keep test written as the negation of the outlier test, which a
\* missing cell passes.
InFences_not_outlier(c, f) ==
    ~(c.k = "num" /\ ~f.nan /\ (8 * c.v < f.lo8 \/ 8 * c.v > f.hi8))

\* (col >= Q1 - 1.5*IQR) & (col <= Q3 + 1.5*IQR) on one cell: a comparison
\* with NaN on either side is False.
InFences(c, f) ==
    c.k = "num" /\ ~f.nan /\ 8 * c.v >= f.lo8 /\ 8 * c.v <= f.hi8

\* --------------------------------------------------------- validate_data

\* df.isnull().sum() for column k.
RECURSIVE MissingFrom(_, _, _)
MissingFrom(rows, k, i) ==
    IF i > Len(rows) THEN 0
    ELSE (IF isnull(rows[i].c[k]) THEN 1 ELSE 0) + MissingFrom(rows, k, i + 1)

Missing(df, k) == MissingFrom(df.rows, k, 1)

\* missing[missing > 0].to_dict(): the (name, count) pairs of the columns
\* with a missing cell, in column order.
RECURSIVE MissingDict(_, _)
MissingDict(df, k) ==
    IF k > NCols(df) THEN <<>>
    ELSE (IF Missing(df, k) > 0 THEN <<<<df.cols[k].name, Missing(df, k)>>>> ELSE <<>>)
         \o MissingDict(df, k + 1)

\* The first block of the report: the missing-values issue, if any.
MissingIssues(df) ==
    IF \E k \in ColIdx(df) : Missing(df, k) > 0
    THEN <<[kind |-> "missing", detail |-> MissingDict(df, 1)]>>
    ELSE <<>>

\* The condition of the mixed-types loop for column k.
IsOffending(df, k) ==
    df.cols[k].dtype = "object" /\ Lower(df.cols[k].name) \notin ExemptNames

\* The second block: one issue per offending column, by the loop over
\* df.columns.
RECURSIVE TypeIssues(_, _)
TypeIssues(df, k) ==
    IF k > NCols(df) THEN <<>>
    ELSE (IF IsOffending(df, k)
          THEN <<[kind |-> "nonnumeric", detail |-> <<df.cols[k].name>>]>>
          ELSE <<>>)
         \o TypeIssues(df, k + 1)

\* Whether the outliers frame of column k is non-empty.
HasOutliers(df, k) ==
    LET f == Fences(Values(df, k))
    IN  \E i \in 1..Len(df.rows) : IsOutlier(df.rows[i].c[k], f)

\* outlier_cols: the names of the numeric columns with an outlier, by the
\* loop over numeric_cols (ncols is a sequence of column positions).
RECURSIVE OutlierCols(_, _, _)
OutlierCols(df, ncols, j) ==
    IF j > Len(ncols) THEN <<>>
    ELSE (IF HasOutliers(df, ncols[j]) THEN <<df.cols[ncols[j]].name>> ELSE <<>>)
         \o OutlierCols(df, ncols, j + 1)

\* The third block: the combined outliers issue, if any.
OutlierIssues(df) ==
    LET cols == OutlierCols(df, select_dtypes(df), 1)
    IN  IF cols # <<>> THEN <<[kind |-> "outliers", detail |-> cols]>> ELSE <<>>

\* A report whose outliers issue is appended before the per-column issues.
validate_report_outliers_first(df) ==
    MissingIssues(df) \o OutlierIssues(df) \o TypeIssues(df, 1)

\* The report list in the order of the appends.
validate_report(df) ==
    MissingIssues(df) \o TypeIssues(df, 1) \o OutlierIssues(df)

\* The issues_found flag: set to True beside each of the three appends.
validate_flag(df) ==
    \/ \E k \in ColIdx(df) : Missing(df, k) > 0
    \/ \E k \in ColIdx(df) : IsOffending(df, k)
    \/ OutlierCols(df, select_dtypes(df), 1) # <<>>

\* validate_data(df): the returned (issues_found, report) pair.
validate_data(df) ==
    [issues_found |-> validate_flag(df), report |-> validate_report(df)]

\* A validation that fills the missing numeric cells of its argument in
\* place with 0 before it returns.
validate_data_frame_fill(df) ==
    [df EXCEPT !.rows =
        [i \in 1..Len(df.rows) |->
            [df.rows[i] EXCEPT !.c =
                [k \in ColIdx(df) |->
                    IF df.cols[k].dtype \in {"float64", "int64"} /\ isnull(df.rows[i].c[k])
                    THEN Num(0) ELSE df.rows[i].c[k]]]]]

\* The caller's frame once validate_data(df) has returned: the function
\* only reads df (isnull().sum(), dtype, quantile and boolean indexing
\* build new objects) and assigns to no part of it.
validate_data_frame(df) == df

\* ----------------------------------------------------- auto_correct_data

\* df.drop_duplicates(ignore_index=True): as below, with the index labels
\* renumbered from 0.
RECURSIVE DedupRenumber(_, _, _)
DedupRenumber(rows, i, kept) ==
    IF i > Len(rows) THEN kept
    ELSE IF \E j \in 1..Len(kept) : kept[j].c = rows[i].c
         THEN DedupRenumber(rows, i + 1, kept)
         ELSE DedupRenumber(rows, i + 1,
                            Append(kept, [idx |-> Len(kept), c |-> rows[i].c]))

drop_duplicates_ignore_index(df) == [df EXCEPT !.rows = DedupRenumber(df.rows, 1, <<>>)]

\* df.drop_duplicates(): a new frame keeping, in order and under its index
\* label, each row whose cells equal those of no earlier row (missing cells
\* compare equal to each other).
RECURSIVE Dedup(_, _, _)
Dedup(rows, i, kept) ==
    IF i > Len(rows) THEN kept
    ELSE IF \E j \in 1..Len(kept) : kept[j].c = rows[i].c
         THEN Dedup(rows, i + 1, kept)
         ELSE Dedup(rows, i + 1, Append(kept, rows[i]))

drop_duplicates(df) == [df EXCEPT !.rows = Dedup(df.rows, 1, <<>>)]

\* Whether every cell of column k converts.
AllParse(df, k) == \A i \in 1..Len(df.rows) : Parses(df.rows[i].c[k])

\* The dtype pd.to_numeric gives a converted column: float64 when a cell is
\* missing, int64 otherwise (the numbers of the model are whole).
NumericDtype(df, k) == IF Missing(df, k) > 0 THEN "float64" ELSE "int64"

\* pd.to_numeric(df[col], errors='coerce') on the object columns: each cell
\* that does not parse becomes missing and the column becomes numeric.
to_numeric_coerce(df) ==
    LET conv(c) == IF Parses(c) THEN ParseCell(c) ELSE NaN
        rows == [i \in 1..Len(df.rows) |->
                   [df.rows[i] EXCEPT !.c =
                      [k \in ColIdx(df) |->
                         IF df.cols[k].dtype = "object"
                         THEN conv(df.rows[i].c[k]) ELSE df.rows[i].c[k]]]]
    IN  [cols |-> [k \in ColIdx(df) |->
                     IF df.cols[k].dtype = "object"
                     THEN [df.cols[k] EXCEPT !.dtype =
                             IF \A i \in 1..Len(rows) : rows[i].c[k].k = "num"
                             THEN "int64" ELSE "float64"]
                     ELSE df.cols[k]],
         rows |-> rows]

\* The loop df[col] = pd.to_numeric(df[col], errors='ignore') over the
\* object columns: a column all of whose cells parse is replaced by its
\* numbers; any other column is returned as it was given.
to_numeric(df) ==
    LET conv(k) == df.cols[k].dtype = "object" /\ AllParse(df, k)
    IN  [cols |-> [k \in ColIdx(df) |->
                     IF conv(k) THEN [df.cols[k] EXCEPT !.dtype = NumericDtype(df, k)]
                     ELSE df.cols[k]],
         rows |-> [i \in 1..Len(df.rows) |->
                     [df.rows[i] EXCEPT !.c =
                        [k \in ColIdx(df) |->
                           IF conv(k) THEN ParseCell(df.rows[i].c[k])
                           ELSE df.rows[i].c[k]]]]]

\* The loop df[col].fillna(df[col].median(), inplace=True) over
\* numeric_cols: each missing cell of a numeric column becomes the column's
\* median; fillna(NaN) (no value in the column) changes nothing.
fillna(df) ==
    LET num == {k \in ColIdx(df) : df.cols[k].dtype \in {"float64", "int64"}}
        med == [k \in ColIdx(df) |-> median(Values(df, k))]
    IN  [df EXCEPT !.rows =
            [i \in 1..Len(df.rows) |->
               [df.rows[i] EXCEPT !.c =
                  [k \in ColIdx(df) |->
                     IF k \in num /\ isnull(df.rows[i].c[k]) /\ ~med[k].nan
                     THEN Num(med[k].m) ELSE df.rows[i].c[k]]]]]

\* df[(df[col] >= lo) & (df[col] <= hi)]: the rows whose cell of column k
\* lies within the fences f, under their index labels.
RECURSIVE Keep(_, _, _, _)
Keep(rows, k, f, i) ==
    IF i > Len(rows) THEN <<>>
    ELSE (IF InFences(rows[i].c[k], f) THEN <<rows[i]>> ELSE <<>>)
         \o Keep(rows, k, f, i + 1)

\* One turn of the outlier loop, for column k: the fences are computed on
\* the frame `base` and the rows of `cur` are filtered by them.
OutlierStep(cur, base, k) ==
    LET f == Fences(Values(base, k))
    IN  [col |-> k, f |-> f, after |-> Keep(cur.rows, k, f, 1)]

\* The outlier loop with every column's fences computed on the frame as it
\* stood before the loop (a fixed snapshot).
remove_outliers_snapshot(df, ncols, j) ==
    LET RECURSIVE Go(_, _)
        Go(cur, jj) ==
            IF jj > Len(ncols) THEN <<>>
            ELSE LET st == OutlierStep(cur, df, ncols[jj])
                 IN  <<st>> \o Go([cur EXCEPT !.rows = st.after], jj + 1)
    IN  Go(df, j)

\* The loop over numeric_cols that rebinds df to the filtered frame: the
\* sequence of its turns.  Column ncols[j] reads the frame the turns before
\* it left.
RECURSIVE remove_outliers(_, _, _)
remove_outliers(df, ncols, j) ==
    IF j > Len(ncols) THEN <<>>
    ELSE LET st == OutlierStep(df, df, ncols[j])
         IN  <<st>> \o remove_outliers([df EXCEPT !.rows = st.after], ncols, j + 1)

\* auto_correct_data(df): the frame after each stage and the returned
\* frame.  numeric_cols is computed once, after the conversion, and used by
\* both loops; the argument itself is never assigned to (drop_duplicates
\* returns a new frame and the name df is rebound to it).
auto_correct_data(df) ==
    Only({Only({Only({Only({
        [dedup |-> dedup, coerced |-> coerced, imputed |-> imputed,
         numeric_cols |-> select_dtypes(coerced), steps |-> steps,
         out |-> [cols |-> imputed.cols,
                  rows |-> IF steps = <<>> THEN imputed.rows
                           ELSE steps[Len(steps)].after]]
        : steps \in {remove_outliers(imputed, select_dtypes(coerced), 1)}})
        : imputed \in {fillna(coerced)}})
        : coerced \in {to_numeric(dedup)}})
        : dedup \in {drop_duplicates(df)}})

\* ------------------------------------------------- the Streamlit script
\* A script run is the execution of src/main.py from top to bottom on one
\* widget event; st.rerun() ends the run and starts another with no event.

\* Python's None.
None == [k |-> "none"]

\* The bytes of an uploaded file: the header's names and the data lines'
\* fields.  b"" has neither; a file of one blank line has no header.
File(header, lines) == [k |-> "file", header |-> header, lines |-> lines]

\* bool(st.session_state.uploaded_file): None and b"" are false.
Truthy(file) == file # None /\ file # File(<<>>, <<>>)

\* Whether pd.read_csv raises (EmptyDataError: no columns to parse).
ReadFails(file) == file.header = <<>>

\* pd.read_csv(BytesIO(file)): an empty field is a missing cell; a column
\* whose non-empty fields all parse as numbers is int64, or float64 when a
\* field is empty; any other column is object (as is every column of a file
\* without data lines).  The index is 0, 1, ...
read_csv(file) ==
    LET n == Len(file.lines)
        K == 1..Len(file.header)
        fld(i, k) == file.lines[i][k]
        numeric(k) == n > 0 /\ \A i \in 1..n : fld(i, k) = "" \/ fld(i, k) \in DOMAIN ParseTable
        dtype(k) == IF ~numeric(k) THEN "object"
                    ELSE IF \E i \in 1..n : fld(i, k) = "" THEN "float64" ELSE "int64"
        cell(i, k) == IF fld(i, k) = "" THEN NaN
                      ELSE IF numeric(k) THEN Num(ParseTable[fld(i, k)])
                      ELSE Str(fld(i, k))
    IN  [cols |-> [k \in K |-> [name |-> file.header[k], dtype |-> dtype(k)]],
         rows |-> [i \in 1..n |-> [idx |-> i - 1, c |-> [k \in K |-> cell(i, k)]]]]

\* df.to_csv(index=False): a missing cell is an empty field, an int64
\* number its digits, a float64 number its digits and ".0".
to_csv(df) ==
    LET field(c, dtype) == IF c.k = "nan" THEN ""
                           ELSE IF c.k = "str" THEN c.s
                           ELSE IF dtype = "int64" THEN ToString(c.v)
                           ELSE ToString(c.v) \o ".0"
    IN  [header |-> [k \in ColIdx(df) |-> df.cols[k].name],
         lines |-> [i \in 1..Len(df.rows) |->
                      [k \in ColIdx(df) |-> field(df.rows[i].c[k], df.cols[k].dtype)]]]

\* A widget event: the one widget whose change started the run.
NoEvent == [k |-> "none"]

\* The session at the end of a run is a record S of st.session_state's five
\* keys, the file held by the file_uploader widget, the widgets the run
\* rendered (shown), and three history variables of the model: the user's
\* last choice between the two buttons (settled), the last agent invocation
\* (last_call) and the number of history entries cleared by Back since the
\* last upload; within
\* a run, rerun tells that st.rerun() was called.

\* A Back handler that forgets to clear the analysis history.
BackToUpload_keep_analysis(S) ==
    [S EXCEPT !.df = None, !.uploaded_file = None,
              !.visualization_history = <<>>, !.summary_history = <<>>,
              !.settled = "none", !.last_call = None,
              !.cleared = Len(S.analysis_history) + Len(S.visualization_history)
                          + Len(S.summary_history)]

\* The body of `if st.button("Back to Upload")`, before its st.rerun().
BackToUpload(S) ==
    [S EXCEPT !.df = None, !.uploaded_file = None,
              !.analysis_history = <<>>, !.visualization_history = <<>>,
              !.summary_history = <<>>,
              !.settled = "none", !.last_call = None,
              !.cleared = Len(S.analysis_history) + Len(S.visualization_history)
                          + Len(S.summary_history)]

\* The key of st.session_state holding the history of an intent.
HistoryOf(S, intent) ==
    CASE intent = "analysis" -> S.analysis_history
      [] intent = "visualization" -> S.visualization_history
      [] OTHER -> S.summary_history

\* history.append((query, answer, ...)): the agent is external, and the
\* entry records what it was given (df_csv) and, for the model, the upload
\* it was made for.
AppendHistory(S, intent, entry) ==
    CASE intent = "analysis" ->
           [S EXCEPT !.analysis_history = Append(@, entry)]
      [] intent = "visualization" ->
           [S EXCEPT !.visualization_history = Append(@, entry)]
      [] OTHER ->
           [S EXCEPT !.summary_history = Append(@, entry)]

\* The three tabs: each chat_input is rendered; the one that was submitted
\* hands st.session_state.df.to_csv(index=False) to the agent and, unless
\* the agent raises (ev.ok false), appends to its history and calls
\* st.rerun().
Tabs(S, ev) ==
    IF ev.k # "ask" THEN [S EXCEPT !.shown = @ \cup {"chat"}]
    ELSE Only({
        IF ~ev.ok
        THEN [S EXCEPT !.shown = @ \cup {"chat"},
                       !.last_call = [k |-> "call", settled |-> S.settled,
                                      intent |-> ev.intent, given |-> df_csv]]
        ELSE [AppendHistory(S, ev.intent,
                  [q |-> "q", given |-> df_csv, upload |-> S.uploaded_file])
              EXCEPT !.shown = @ \cup {"chat"},
                     !.last_call = [k |-> "call", settled |-> S.settled,
                                    intent |-> ev.intent, given |-> df_csv],
                     !.rerun = TRUE]
        : df_csv \in {to_csv(S.df)}})

\* The buttons, rendered when validate_data found issues: a button is true
\* only in the run its click started.
Buttons(S, df, ev) ==
    IF ev.k = "fix"
    THEN [S EXCEPT !.shown = @ \cup {"fix"},
                   !.df = auto_correct_data(df).out, !.settled = "corrected"]
    ELSE IF ev.k = "keep"
    THEN [S EXCEPT !.shown = @ \cup {"fix"}, !.df = df, !.settled = "original"]
    ELSE [S EXCEPT !.shown = @ \cup {"fix"}]

\* `if st.session_state.uploaded_file:` ... the frame is read again from the
\* uploaded bytes on every run and stored as st.session_state.df before the
\* buttons are looked at; an exception of read_csv ends the run.
MainLogic(S, ev) ==
    IF ~Truthy(S.uploaded_file) THEN S
    ELSE IF ReadFails(S.uploaded_file) THEN S
    ELSE Only({Only({Tabs(T, ev)
                     : T \in {IF validate_data(df).issues_found
                              THEN Buttons([S EXCEPT !.df = df], df, ev)
                              ELSE [S EXCEPT !.df = df]}})
               : df \in {read_csv(S.uploaded_file)}})

\* The top of the script.  With no dataset the landing page and its
\* file_uploader are rendered (a widget that was not rendered by the run
\* before starts empty) and a held file's bytes are stored; otherwise the
\* Back button is rendered, and its click clears the session and calls
\* st.rerun().
Page(S, ev) ==
    IF S.df = None
    THEN Only({[S EXCEPT !.shown = {"uploader"}, !.uploader = u,
                         !.cleared = IF ev.k = "upload" THEN 0 ELSE @,
                         !.uploaded_file = IF u # None THEN u ELSE @,
                         !.settled = IF ev.k = "upload" THEN "none" ELSE @]
               : u \in {IF ev.k = "upload" THEN ev.file
                        ELSE IF ev.k = "remove" \/ "uploader" \notin S.shown THEN None
                        ELSE S.uploader}})
    ELSE Only({IF ev.k = "back" THEN [BackToUpload(T) EXCEPT !.rerun = TRUE] ELSE T
               : T \in {[S EXCEPT !.shown = {"back"}, !.uploader = None]}})

\* One run of the script on event ev, to its end or to its st.rerun().
ScriptRun(S, ev) ==
    Only({IF T.rerun THEN T ELSE MainLogic(T, ev) : T \in {Page(S, ev)}})

\* The run the event starts and the runs its st.rerun() calls start, which
\* see no event.
RECURSIVE Script(_, _)
Script(S, ev) ==
    Only({IF T.rerun THEN Script([T EXCEPT !.rerun = FALSE], NoEvent) ELSE T
          : T \in {ScriptRun(S, ev)}})

\* The files a user uploads: one without issues, one with a missing cell
\* and a duplicate row, one blank line, and no bytes at all.
CleanFile == File(<<"Region", "Amount">>, <<<<"a", "2">>, <<"b", "4">>>>)

DirtyFile == File(<<"Price", "Qty">>, <<<<"", "0">>, <<"2", "0">>, <<"2", "0">>>>)

BlankFile == File(<<>>, <<<<>>>>)

EmptyFile == File(<<>>, <<>>)

Files == {CleanFile, DirtyFile, BlankFile, EmptyFile}

\* ------------------------------------------------------- input datasets
\* The inputs of the two functions: for each of three column layouts, every
\* sequence of at most MaxRows rows drawn from the layout's rows.

\* An exempt textual column and a float column: three equal amounts under
\* distinct regions, and two larger amounts.
SalesCols == <<[name |-> "Region", dtype |-> "object"],
               [name |-> "Amount", dtype |-> "float64"]>>

SalesRows == {<<Str("a"), Num(0)>>, <<Str("b"), Num(0)>>, <<Str("c"), Num(0)>>,
              <<Str("d"), Num(2)>>, <<Str("a"), Num(20)>>}

\* Two numeric columns, the first with a missing cell.
StockCols == <<[name |-> "Price", dtype |-> "float64"],
               [name |-> "Qty", dtype |-> "int64"]>>

StockRows == {<<Num(0), Num(0)>>, <<Num(2), Num(0)>>, <<NaN, Num(0)>>,
              <<Num(6), Num(2)>>, <<Num(20), Num(2)>>}

\* A non-exempt textual column, with strings that parse, one that does not
\* and a missing cell, and a float column.
ExamCols == <<[name |-> "Score", dtype |-> "object"],
              [name |-> "Amount", dtype |-> "float64"]>>

ExamRows == {<<Str("2"), Num(0)>>, <<Str("4"), Num(0)>>, <<NaN, Num(0)>>,
             <<Str("x"), Num(20)>>, <<Str("2"), NaN>>}

Layouts == {[cols |-> SalesCols, rows |-> SalesRows],
            [cols |-> StockCols, rows |-> StockRows],
            [cols |-> ExamCols, rows |-> ExamRows]}

\* The frame of the given cells, under the index labels 0, 1, ... of a
\* freshly read frame.
Frame(cols, cells) ==
    [cols |-> cols,
     rows |-> [i \in 1..Len(cells) |-> [idx |-> i - 1, c |-> cells[i]]]]

\* Whether x is an input dataset: some layout's columns over at most
\* MaxRows of its rows.
IsDataset(x) ==
    \E L \in Layouts : \E n \in 0..MaxRows : \E cells \in [1..n -> L.rows] :
        x = Frame(L.cols, cells)

\* ------------------------------------------------------------------ state

VARIABLES
    pc,      \* the next call of the caller of the two functions
    d,       \* the dataset as it was before the first call
    df,      \* the caller's frame, the argument of every call
    rep1,    \* the result of the first validate_data(df)
    rep2,    \* the result of the second validate_data(df)
    cor,     \* the trace of auto_correct_data(df)
    cor2,    \* the frame auto_correct_data returns for the output of cor
    ss_df,                  \* st.session_state.df
    ss_uploaded_file,       \* st.session_state.uploaded_file
    analysis_history,       \* st.session_state.analysis_history
    visualization_history,  \* st.session_state.visualization_history
    summary_history,        \* st.session_state.summary_history
    uploader,   \* the file held by the file_uploader widget
    shown,      \* the widgets rendered by the last run
    settled,    \* the user's last choice: "corrected", "original" or "none"
    last_call,  \* the last agent invocation, with the choice it was made under
    cleared     \* the number of history entries cleared since the last upload

pipeline == <<pc, d, df, rep1, rep2, cor, cor2>>

session == <<ss_df, ss_uploaded_file, analysis_history, visualization_history,
             summary_history, uploader, shown, settled, last_call, cleared>>

vars == <<pipeline, session>>

\* The session after the first run of the script: the keys as lines 110-119
\* set them, and the landing page on screen.
SessionStart ==
    /\ ss_df = None
    /\ ss_uploaded_file = None
    /\ analysis_history = <<>>
    /\ visualization_history = <<>>
    /\ summary_history = <<>>
    /\ uploader = None
    /\ shown = {"uploader"}
    /\ settled = "none"
    /\ last_call = None
    /\ cleared = 0

Init ==
    /\ pc = "validate"
    /\ IsDataset(d)
    /\ df = d
    /\ rep1 = <<>>
    /\ rep2 = <<>>
    /\ cor = <<>>
    /\ cor2 = <<>>
    /\ SessionStart

\* issues_found, report = validate_data(df)
Validate ==
    /\ pc = "validate"
    /\ rep1' = validate_data(df)
    /\ df' = validate_data_frame(df)
    /\ pc' = "validate_again"
    /\ UNCHANGED <<d, rep2, cor, cor2, session>>

\* A second validate_data(df) on the same frame.
ValidateAgain ==
    /\ pc = "validate_again"
    /\ rep2' = validate_data(df)
    /\ df' = validate_data_frame(df)
    /\ pc' = "correct"
    /\ UNCHANGED <<d, rep1, cor, cor2, session>>

\* df2 = auto_correct_data(df)
Correct ==
    /\ pc = "correct"
    /\ cor' = auto_correct_data(df)
    /\ pc' = "correct_again"
    /\ UNCHANGED <<d, df, rep1, rep2, cor2, session>>

\* auto_correct_data(df2)
CorrectAgain ==
    /\ pc = "correct_again"
    /\ cor2' = auto_correct_data(cor.out).out
    /\ pc' = "done"
    /\ UNCHANGED <<d, df, rep1, rep2, cor, session>>

Next == Validate \/ ValidateAgain \/ Correct \/ CorrectAgain

Spec == Init /\ [][Next]_vars

\* ------------------------------------------------------------ the session

\* The session as a record.
Session ==
    [df |-> ss_df, uploaded_file |-> ss_uploaded_file,
     analysis_history |-> analysis_history,
     visualization_history |-> visualization_history,
     summary_history |-> summary_history,
     uploader |-> uploader, shown |-> shown,
     settled |-> settled, last_call |-> last_call, cleared |-> cleared,
     rerun |-> FALSE]

\* A run of the script on event ev, from the session as it stands.
Run(ev) ==
    \E T \in {Script(Session, ev)} :
        /\ ss_df' = T.df
        /\ ss_uploaded_file' = T.uploaded_file
        /\ analysis_history' = T.analysis_history
        /\ visualization_history' = T.visualization_history
        /\ summary_history' = T.summary_history
        /\ uploader' = T.uploader
        /\ shown' = T.shown
        /\ settled' = T.settled
        /\ last_call' = T.last_call
        /\ cleared' = T.cleared
        /\ UNCHANGED pipeline

SessionInit ==
    /\ pc = "idle"
    /\ d = Frame(<<>>, <<>>)
    /\ df = d
    /\ rep1 = <<>>
    /\ rep2 = <<>>
    /\ cor = <<>>
    /\ cor2 = <<>>
    /\ SessionStart

\* The user drops a file on the file_uploader of the landing page.
Upload ==
    /\ "uploader" \in shown
    /\ \E f \in Files : Run([k |-> "upload", file |-> f])

\* The user removes the file from the file_uploader.
RemoveFile ==
    /\ "uploader" \in shown
    /\ uploader # None
    /\ Run([k |-> "remove"])

\* The user clicks "Back to Upload".
Back ==
    /\ "back" \in shown
    /\ Run([k |-> "back"])

\* The user clicks "Auto-Correct Data".
AutoCorrect ==
    /\ "fix" \in shown
    /\ Run([k |-> "fix"])

\* The user clicks "Keep Original Data".
KeepOriginal ==
    /\ "fix" \in shown
    /\ Run([k |-> "keep"])

\* The user submits a question in the chat_input of a tab; the agent
\* answers (ok) or raises.
Ask(intent) ==
    /\ "chat" \in shown
    /\ Len(HistoryOf(Session, intent)) < MaxHist
    /\ \E ok \in BOOLEAN : Run([k |-> "ask", intent |-> intent, ok |-> ok])

AskAnalysis == Ask("analysis")

AskVisualization == Ask("visualization")

AskSummary == Ask("summary")

\* A rerun without any widget change (the user presses R).
Rerun == Run(NoEvent)

SessionNext ==
    \/ Upload
    \/ RemoveFile
    \/ Back
    \/ AutoCorrect
    \/ KeepOriginal
    \/ AskAnalysis
    \/ AskVisualization
    \/ AskSummary
    \/ Rerun

SessionSpec == SessionInit /\ [][SessionNext]_vars

\* ============================================================== claims
\* The function claims are checked under Spec, the session claims under
\* SessionSpec.

\* The first validate_data(df) has just returned (rep1 is not assigned
\* again).
Validated == pc = "validate_again"

\* The second validate_data(df) has just returned.
ValidatedTwice == pc = "correct"

\* auto_correct_data(df) has just returned (cor is not assigned again).
Corrected == pc = "correct_again"

IsNumeric(col) == col.dtype \in {"float64", "int64"}

Names(f) == [k \in ColIdx(f) |-> f.cols[k].name]

\* The index labels of the rows, in row order.
Index(rows) == [i \in 1..Len(rows) |-> rows[i].idx]

Originates(o, c) ==
    \/ c = o
    \/ o.k = "str" /\ o.s \in DOMAIN ParseTable /\ c = Num(ParseTable[o.s])
    \/ o.k = "nan" /\ c.k = "num"

\* C2: the output of auto_correct_data(d) has at most as many rows as d
\* and exactly the columns of d, and every output row originates from a row
\* of d: the output's index labels are labels of d, in increasing order, and
\* each output cell comes from the cell of d under the same label and
\* column.
C2_RowsOnlyRemoved ==
    Corrected =>
        LET out == cor.out
        IN  /\ Len(out.rows) <= Len(d.rows)
            /\ Names(out) = Names(d)
            /\ \A i \in 1..Len(out.rows) :
                  /\ out.rows[i].idx \in 0..(Len(d.rows) - 1)
                  /\ i > 1 => out.rows[i - 1].idx < out.rows[i].idx
                  /\ \A k \in ColIdx(d) :
                        Originates(d.rows[out.rows[i].idx + 1].c[k], out.rows[i].c[k])

\* The correction removed a duplicate that was not the last row, and kept
\* rows after it.
C2_Witness ==
    /\ Corrected
    /\ Len(cor.dedup.rows) < Len(d.rows)
    /\ Len(cor.out.rows) > 0
    /\ Index(cor.out.rows) # [i \in 1..Len(cor.out.rows) |-> i - 1]

\* The rows the j-th turn of the outlier loop of the trace c started from.
Before(c, j) == IF j = 1 THEN c.imputed.rows ELSE c.steps[j - 1].after

\* C3: auto_correct_data(auto_correct_data(d)) has the rows,
\* columns and cell values of auto_correct_data(d).
C3_Idempotent ==
    pc = "done" => cor2 = cor.out

\* The cell of column k in the row of f labelled idx.
CellAt(f, idx, k) ==
    LET i == CHOOSE i \in 1..Len(f.rows) : f.rows[i].idx = idx
    IN  f.rows[i].c[k]

\* C3, amended: a second application keeps the columns, adds no row, and
\* finds no missing cell to impute in the columns the first application left
\* numeric, whose cells it leaves as they are in every row it keeps.
C3_SecondPass ==
    pc = "done" =>
        LET e == cor.out
            o == cor2
        IN  /\ Names(o) = Names(e)
            /\ Len(o.rows) <= Len(e.rows)
            /\ \A i \in 1..Len(o.rows) : \E j \in 1..Len(e.rows) : e.rows[j].idx = o.rows[i].idx
            /\ \A k \in ColIdx(e) :
                  IsNumeric(e.cols[k]) =>
                      /\ \A j \in 1..Len(e.rows) : ~isnull(e.rows[j].c[k])
                      /\ o.cols[k] = e.cols[k]
                      /\ \A i \in 1..Len(o.rows) :
                            o.rows[i].c[k] = CellAt(e, o.rows[i].idx, k)

\* The first application imputed a cell and the second one still changed
\* its input.
C3_Witness ==
    /\ pc = "done"
    /\ cor.imputed # cor.coerced
    /\ cor.out.rows # <<>>
    /\ cor2 # cor.out

\* The names listed by the outliers issue of a report.
OutlierNames(rep) ==
    UNION {{rep.report[i].detail[j] : j \in 1..Len(rep.report[i].detail)} :
             i \in {i \in 1..Len(rep.report) : rep.report[i].kind = "outliers"}}

\* C4: for a numeric column whose IQR is 0, validate_data does not list the
\* column in its outliers issue and the outlier stage of auto_correct_data
\* removes no row because of it.
C4_IQRZeroNoOutlier ==
    /\ Validated =>
          \A k \in ColIdx(d) :
              (IsNumeric(d.cols[k]) /\ ~Fences(Values(d, k)).nan
                 /\ Fences(Values(d, k)).iqr = 0)
              => d.cols[k].name \notin OutlierNames(rep1)
    /\ Corrected =>
          \A j \in 1..Len(cor.steps) :
              (~cor.steps[j].f.nan /\ cor.steps[j].f.iqr = 0)
              => cor.steps[j].after = Before(cor, j)

\* C5: when a numeric column has no non-missing cell, the outlier stage of
\* auto_correct_data removes no row because of that column.
C5_EmptyColumnRemovesNoRow ==
    Corrected =>
        \A j \in 1..Len(cor.steps) :
            Values(cor.coerced, cor.steps[j].col) = <<>>
            => cor.steps[j].after = Before(cor, j)

\* What the agent is given when the user settled on the corrected dataset,
\* and when the user settled on the original one.
SettledCsv(choice) ==
    Only({IF choice = "corrected" THEN to_csv(auto_correct_data(f).out) ELSE to_csv(f)
          : f \in {read_csv(ss_uploaded_file)}})

\* C6: once the user has clicked 'Auto-Correct Data', every later agent
\* invocation of the session is given the output of auto_correct_data, and
\* after 'Keep Original Data' it is given the original.
C6_AgentGetsSettledDataset ==
    (last_call # None /\ last_call.settled # "none")
    => [header |-> last_call.given.header, lines |-> last_call.given.lines]
       = SettledCsv(last_call.settled)

\* Whether a cell of an object column converts: it is missing or a string
\* that parses.
Convertible(c) == c.k = "nan" \/ (c.k = "str" /\ c.s \in {"0", "2", "4", "20"})

\* C7: a textual column becomes numeric iff every non-missing cell parses as
\* a number; if a cell fails to parse, every cell of the column keeps its
\* textual value and the column takes no part in imputation or outlier
\* removal.
C7_CoercionAllOrNothing ==
    Corrected =>
        \A k \in ColIdx(cor.dedup) :
            cor.dedup.cols[k].dtype = "object" =>
                LET all == \A i \in 1..Len(cor.dedup.rows) : Convertible(cor.dedup.rows[i].c[k])
                IN  /\ IsNumeric(cor.coerced.cols[k]) <=> all
                    /\ all => \A i \in 1..Len(cor.coerced.rows) :
                                 cor.coerced.rows[i].c[k].k \in {"nan", "num"}
                    /\ ~all =>
                         /\ \A i \in 1..Len(cor.dedup.rows) :
                               /\ cor.coerced.rows[i].c[k] = cor.dedup.rows[i].c[k]
                               /\ cor.imputed.rows[i].c[k] = cor.dedup.rows[i].c[k]
                         /\ \A j \in 1..Len(cor.numeric_cols) : cor.numeric_cols[j] # k
                         /\ \A j \in 1..Len(cor.steps) : cor.steps[j].col # k

\* A textual column held a string that parses, a string that does not and a
\* missing cell, and stayed as it was.
C7_Witness ==
    /\ Corrected
    /\ \E k \in ColIdx(cor.dedup) :
          /\ cor.dedup.cols[k].dtype = "object"
          /\ \E i \in 1..Len(cor.dedup.rows) : cor.dedup.rows[i].c[k] = Str("2")
          /\ \E i \in 1..Len(cor.dedup.rows) : cor.dedup.rows[i].c[k] = Str("x")
          /\ \E i \in 1..Len(cor.dedup.rows) : cor.dedup.rows[i].c[k] = NaN
          /\ cor.coerced.cols[k].dtype = "object"

\* The names of the columns of f that satisfy P, in column order.
NamesWhere(f, P(_)) ==
    LET ks == SelectSeq([k \in ColIdx(f) |-> k], P)
    IN  [j \in 1..Len(ks) |-> f.cols[ks[j]].name]

C9_Cascade ==
    Corrected =>
        LET steps == cor.steps
            n == Len(steps)
        IN  /\ n = Len(cor.numeric_cols)
            /\ \A j \in 1..n :
                  /\ steps[j].col = cor.numeric_cols[j]
                  /\ steps[j].f = Fences(ValuesFrom(Before(cor, j), steps[j].col, 1))
            /\ cor.out.rows =
                  SelectSeq(cor.imputed.rows,
                            LAMBDA r : \A j \in 1..n : InFences(r.c[steps[j].col], steps[j].f))

\* The second numeric column lost a row to fences that differ from the ones
\* the rows before the loop give.
C9_Witness ==
    /\ Corrected
    /\ Len(cor.steps) = 2
    /\ Len(cor.steps[1].after) < Len(Before(cor, 1))
    /\ Len(cor.steps[2].after) < Len(Before(cor, 2))
    /\ cor.steps[2].f # Fences(Values(cor.imputed, cor.steps[2].col))

\* The entries of the three histories.
HistoryEntries ==
    {analysis_history[i] : i \in 1..Len(analysis_history)}
    \cup {visualization_history[i] : i \in 1..Len(visualization_history)}
    \cup {summary_history[i] : i \in 1..Len(summary_history)}

\* C10: at the end of every script run, if the session has no dataset then
\* the three histories are empty, and every history entry was made for the
\* upload the session holds.
C10_NoDatasetNoHistory ==
    /\ ss_df = None => HistoryEntries = {}
    /\ \A e \in HistoryEntries : e.upload = ss_uploaded_file

\* Back to Upload cleared a session that held history entries.
C10_Witness ==
    /\ ss_df = None
    /\ ss_uploaded_file = None
    /\ cleared > 0

====
